---- MODULE Spec2Model ----
(***************************************************************************)
(* Model of the HeatSinkCalculator component (validated version): the      *)
(* thermal sizing calculation, the per-field validation that gates it, and *)
(* the input handlers that drive it.                                        *)
(*                                                                         *)
(* JavaScript numbers are modelled as decimal floating-point values with a *)
(* six-digit significand, together with NaN, +Infinity and -Infinity.      *)
(* A finite number is [k |-> "fin", m |-> significand, e |-> exponent] and *)
(* stands for m * 10^e; it is kept canonical (no trailing zero in m, zero  *)
(* is m = 0, e = 0) so that equal numbers are equal records.               *)
(***************************************************************************)
EXTENDS Integers, Sequences, FiniteSets, TLC

----------------------------------------------------------------------------
(* Number representation *)

Abs(i) == IF i < 0 THEN 0 - i ELSE i

Sgn(i) == IF i < 0 THEN 0 - 1 ELSE IF i = 0 THEN 0 ELSE 1

Pow10(n) ==
  CASE n = 0 -> 1
    [] n = 1 -> 10
    [] n = 2 -> 100
    [] n = 3 -> 1000
    [] n = 4 -> 10000
    [] n = 5 -> 100000
    [] n = 6 -> 1000000
    [] n = 7 -> 10000000
    [] n = 8 -> 100000000
    [] n = 9 -> 1000000000

NumDigits(a) ==
  IF a < 10 THEN 1
  ELSE IF a < 100 THEN 2
  ELSE IF a < 1000 THEN 3
  ELSE IF a < 10000 THEN 4
  ELSE IF a < 100000 THEN 5
  ELSE IF a < 1000000 THEN 6
  ELSE IF a < 10000000 THEN 7
  ELSE IF a < 100000000 THEN 8
  ELSE IF a < 1000000000 THEN 9
  ELSE 10

NaN == [k |-> "nan", m |-> 0, e |-> 0]

PosInf == [k |-> "inf", m |-> 0, e |-> 0]

NegInf == [k |-> "ninf", m |-> 0, e |-> 0]

Undefined == [k |-> "undef", m |-> 0, e |-> 0]

Zero == [k |-> "fin", m |-> 0, e |-> 0]

IsFinite(x) == x.k = "fin"

IsNaN(x) == x.k = "nan"

RECURSIVE StripZeros(_, _)
(* <<a, e>> with the trailing zeros of a moved into the exponent *)
StripZeros(a, e) ==
  IF a # 0 /\ a % 10 = 0 THEN StripZeros(a \div 10, e + 1) ELSE <<a, e>>

SignedInf(s) == IF s < 0 THEN NegInf ELSE PosInf

(* a without its last drop digits, rounded half up *)
RoundDigits(a, drop) ==
  IF drop > 0 THEN (a + Pow10(drop) \div 2) \div Pow10(drop) ELSE a

(* The number s * c[1] * 10^c[2], overflowing to an infinity above 1e308    *)
(* and underflowing to zero below 1e-324 as a double does                   *)
Canonical(s, c) ==
  IF c[2] + NumDigits(c[1]) - 1 > 308 THEN SignedInf(s)
  ELSE IF c[2] + NumDigits(c[1]) - 1 < 0 - 324 THEN Zero
  ELSE [k |-> "fin", m |-> s * c[1], e |-> c[2]]

FinRounded(s, a, e, drop) ==
  Canonical(s, StripZeros(RoundDigits(a, drop),
                          IF drop > 0 THEN e + drop ELSE e))

(* The number m * 10^e rounded to six significant digits *)
Fin(m, e) ==
  IF m = 0 THEN Zero
  ELSE FinRounded(Sgn(m), Abs(m), e, NumDigits(Abs(m)) - 6)

(* A decimal literal of the source: D(27315, -2) is 273.15 *)
D(m, e) == Fin(m, e)

ScaledUp(x, up) == [m |-> x.m * Pow10(up), e |-> x.e - up]

(* The significand of a nonzero finite x scaled up to exactly six digits *)
Full(x) == ScaledUp(x, 6 - NumDigits(Abs(x.m)))

IsZero(x) == x.k = "fin" /\ x.m = 0

IsNumber(x) == x.k \in {"fin", "inf", "ninf"}

(* -1, 0 or 1 for a number that is not NaN *)
SignOf(x) ==
  CASE x.k = "inf" -> 1
    [] x.k = "ninf" -> 0 - 1
    [] OTHER -> Sgn(x.m)

----------------------------------------------------------------------------
(* Arithmetic of the JavaScript number type *)

Neg(x) ==
  CASE x.k = "fin" -> [x EXCEPT !.m = 0 - x.m]
    [] x.k = "inf" -> NegInf
    [] x.k = "ninf" -> PosInf
    [] OTHER -> NaN

(* big + small, big scaled up by u digits and small down by w digits *)
AddShifted(big, small, u, w) ==
  IF w > 6 THEN Fin(big.m, big.e)
  ELSE Fin(big.m * Pow10(u) + Sgn(small.m) * (Abs(small.m) \div Pow10(w)),
           big.e - u)

AddAligned(big, small, d) ==
  IF d < 3 THEN AddShifted(big, small, d, 0)
  ELSE AddShifted(big, small, 3, d - 3)

AddFull(fx, fy) ==
  IF fx.e >= fy.e THEN AddAligned(fx, fy, fx.e - fy.e)
  ELSE AddAligned(fy, fx, fy.e - fx.e)

AddFin(x, y) ==
  IF x.m = 0 THEN y
  ELSE IF y.m = 0 THEN x
  ELSE AddFull(Full(x), Full(y))

(* x + y *)
Add(x, y) ==
  IF ~IsNumber(x) \/ ~IsNumber(y) THEN NaN
  ELSE IF x.k = "fin" /\ y.k = "fin" THEN AddFin(x, y)
  ELSE IF x.k = "fin" THEN y
  ELSE IF y.k = "fin" THEN x
  ELSE IF x.k = y.k THEN x
  ELSE NaN

(* x - y *)
Sub(x, y) == Add(x, Neg(y))

MulAbs(s, a, b, e) ==
  IF a = 0 \/ b = 0 THEN Zero
  ELSE IF NumDigits(a) + NumDigits(b) <= 9 THEN Fin(s * (a * b), e)
  ELSE Fin(s * ((a \div 1000) * b + ((a % 1000) * b) \div 1000), e + 3)

MulFin(x, y) == MulAbs(Sgn(x.m) * Sgn(y.m), Abs(x.m), Abs(y.m), x.e + y.e)

(* x * y *)
Mul(x, y) ==
  IF ~IsNumber(x) \/ ~IsNumber(y) THEN NaN
  ELSE IF x.k = "fin" /\ y.k = "fin" THEN MulFin(x, y)
  ELSE IF IsZero(x) \/ IsZero(y) THEN NaN
  ELSE SignedInf(SignOf(x) * SignOf(y))

(* Long division, three digits of the quotient at a time *)
DivDigits3(s, b, e, q, r) ==
  IF q < 1000000 THEN Fin(s * (q * 1000 + (r * 1000) \div b), e - 9)
  ELSE Fin(s * (q * 100 + ((r * 1000) \div b) \div 10), e - 8)

DivDigits2(s, b, e, q, r) ==
  DivDigits3(s, b, e, q * 1000 + (r * 1000) \div b, (r * 1000) % b)

DivAbs(s, a, b, e) ==
  DivDigits2(s, b, e, (a * 1000) \div b, (a * 1000) % b)

DivFull(s, fx, fy) == DivAbs(s, Abs(fx.m), Abs(fy.m), fx.e - fy.e)

DivFin(x, y) == DivFull(Sgn(x.m) * Sgn(y.m), Full(x), Full(y))

(* x / y *)
Div(x, y) ==
  IF ~IsNumber(x) \/ ~IsNumber(y) THEN NaN
  ELSE IF x.k = "fin" /\ y.k = "fin"
    THEN IF y.m = 0
           THEN (IF x.m = 0 THEN NaN ELSE SignedInf(SignOf(x)))
           ELSE IF x.m = 0 THEN Zero ELSE DivFin(x, y)
  ELSE IF x.k = "fin" THEN Zero
  ELSE IF y.k = "fin"
    THEN SignedInf(SignOf(x) * (IF SignOf(y) < 0 THEN 0 - 1 ELSE 1))
  ELSE NaN

(* x < y, false when either is NaN or undefined *)
Lt(x, y) ==
  /\ IsNumber(x)
  /\ IsNumber(y)
  /\ IF x.k = "fin" /\ y.k = "fin" THEN SignOf(Sub(x, y)) < 0
     ELSE IF x.k = y.k THEN FALSE
     ELSE x.k = "ninf" \/ y.k = "inf"

(* x > y *)
Gt(x, y) == Lt(y, x)

(* x <= y *)
Le(x, y) == IsNumber(x) /\ IsNumber(y) /\ ~Lt(y, x)

(* x >= y *)
Ge(x, y) == Le(y, x)

(* a || b on numbers: b when a is falsy (NaN, 0 or undefined) *)
OrElse(a, b) ==
  IF a.k \in {"nan", "undef"} \/ IsZero(a) THEN b ELSE a

----------------------------------------------------------------------------
(* Math.* functions *)

One == D(1, 0)

Two == D(2, 0)

RECURSIVE ISqrtBetween(_, _, _)
ISqrtStep(n, lo, hi, mid) ==
  IF mid * mid <= n THEN ISqrtBetween(n, mid, hi)
  ELSE ISqrtBetween(n, lo, mid - 1)

(* The largest r in lo..hi with r * r <= n *)
ISqrtBetween(n, lo, hi) ==
  IF lo >= hi THEN lo ELSE ISqrtStep(n, lo, hi, (lo + hi + 1) \div 2)

SqrtNewton(x, y0) == Div(Add(y0, Div(x, y0)), Two)

SqrtFull(x, fx) ==
  IF fx.e % 2 # 0
    THEN SqrtNewton(x, Fin(ISqrtBetween(fx.m * 1000, 0, 46340),
                           (fx.e - 3) \div 2))
    ELSE SqrtNewton(x, Fin(ISqrtBetween(fx.m * 100, 0, 46340),
                           (fx.e - 2) \div 2))

(* Square root of a finite positive number: integer root of the leading     *)
(* digits, refined by one Newton step                                       *)
Sqrt(x) == SqrtFull(x, Full(x))

Square(x) == Mul(x, x)

RECURSIVE Newton5(_, _, _)
Newton5Next(x, y, next, n) ==
  IF next = y THEN y ELSE Newton5(x, next, n - 1)

(* At most n Newton steps y <- (4y + x / y^4) / 5 from y *)
Newton5(x, y, n) ==
  IF n = 0 \/ y.k # "fin" THEN y
  ELSE Newton5Next(x, y,
                   Div(Add(Mul(D(4, 0), y), Div(x, Square(Square(y)))),
                       D(5, 0)),
                   n)

(* The integer fifth root of n < 41^5 *)
IRoot5(n) ==
  CHOOSE r \in 1..40 :
    /\ r * r * r * r * r <= n
    /\ n < (r + 1) * (r + 1) * (r + 1) * (r + 1) * (r + 1)

Root5Scaled(x, a, e) ==
  Newton5(x, Fin(IRoot5(a * Pow10(e % 5)), (e - (e % 5)) \div 5), 7)

Root5Full(x, fx) == Root5Scaled(x, fx.m \div 100, fx.e + 2)

(* Fifth root of a finite positive number *)
Root5(x) == Root5Full(x, Full(x))

(* x^p for finite x > 0 and the exponents the calculation uses; a fractional *)
(* power is composed of square and fifth roots (0.33 = 1/4 + 2/25)          *)
PowPositive(x, p) ==
  CASE p = D(5, -1) -> Sqrt(x)
    [] p = D(25, -2) -> Sqrt(Sqrt(x))
    [] p = D(0 - 25, -2) -> Div(One, Sqrt(Sqrt(x)))
    [] p = D(4, -1) -> Square(Root5(x))
    [] p = D(8, -1) -> Square(Square(Root5(x)))
    [] p = D(33, -2) -> Mul(Sqrt(Sqrt(x)), Square(Root5(Root5(x))))

(* Math.pow(x, p) *)
MathPow(x, p) ==
  IF ~IsNumber(x) THEN NaN
  ELSE IF p = D(4, 0) THEN Square(Square(x))
  ELSE IF x.k = "fin" /\ x.m < 0 THEN NaN
  ELSE IF IsZero(x) THEN (IF p.m > 0 THEN Zero ELSE PosInf)
  ELSE IF x.k \in {"inf", "ninf"} THEN (IF p.m > 0 THEN PosInf ELSE Zero)
  ELSE PowPositive(x, p)

(* Math.ceil(x) *)
MathCeil(x) ==
  IF x.k # "fin" \/ x.e >= 0 THEN x
  ELSE IF 0 - x.e > 6 THEN (IF x.m > 0 THEN One ELSE Zero)
  ELSE IF x.m > 0 THEN Fin(x.m \div Pow10(0 - x.e) + 1, 0)
  ELSE Fin(0 - (Abs(x.m) \div Pow10(0 - x.e)), 0)

(* Math.round(x): the integer nearest to x, halves rounded up *)
MathRound(x) ==
  IF x.k # "fin" \/ x.e >= 0 THEN x
  ELSE IF 0 - x.e > 6 THEN Zero
  ELSE Fin((x.m + Pow10(0 - x.e) \div 2) \div Pow10(0 - x.e), 0)

(* Math.max(a, b) *)
MathMax(a, b) ==
  IF ~IsNumber(a) \/ ~IsNumber(b) THEN NaN
  ELSE IF Lt(a, b) THEN b ELSE a

(* Number.isInteger(x) *)
IsInteger(x) == x.k = "fin" /\ x.e >= 0

----------------------------------------------------------------------------
(* parseFloat *)

DigitChars == {"0", "1", "2", "3", "4", "5", "6", "7", "8", "9"}

DigitVal(c) ==
  CASE c = "0" -> 0 [] c = "1" -> 1 [] c = "2" -> 2 [] c = "3" -> 3
    [] c = "4" -> 4 [] c = "5" -> 5 [] c = "6" -> 6 [] c = "7" -> 7
    [] c = "8" -> 8 [] c = "9" -> 9

RECURSIVE ScanDigits(_, _, _, _)
(* Reads the digits of s from position i on: <<value, digits read, next>> *)
ScanDigits(s, i, acc, n) ==
  IF i <= Len(s) /\ s[i] \in DigitChars
    THEN ScanDigits(s, i + 1, Add(Mul(acc, D(10, 0)), D(DigitVal(s[i]), 0)),
                    n + 1)
    ELSE <<acc, n, i>>

RECURSIVE ScanExponent(_, _, _)
(* Reads the digits of an exponent from position i on, saturating *)
ScanExponent(s, i, acc) ==
  IF i <= Len(s) /\ s[i] \in DigitChars
    THEN ScanExponent(s, i + 1,
                      IF acc > 999 THEN acc ELSE acc * 10 + DigitVal(s[i]))
    ELSE acc

(* The exponent part of the literal, if position i starts one, else 0 *)
ExponentValue(s, i) ==
  IF i <= Len(s) /\ s[i] \in {"e", "E"}
    THEN IF i + 1 <= Len(s) /\ s[i + 1] = "-"
           THEN 0 - ScanExponent(s, i + 2, 0)
         ELSE IF i + 1 <= Len(s) /\ s[i + 1] = "+"
           THEN ScanExponent(s, i + 2, 0)
         ELSE ScanExponent(s, i + 1, 0)
    ELSE 0

(* nInt integer digits were read; fp is the scan of the fraction digits *)
ParseScaled(s, nInt, fp) ==
  IF nInt + fp[2] = 0 THEN NaN
  ELSE IF IsZero(fp[1]) THEN Zero
  ELSE Fin(fp[1].m, fp[1].e - fp[2] + ExponentValue(s, fp[3]))

ParseFraction(s, ip) ==
  IF ip[3] <= Len(s) /\ s[ip[3]] = "."
    THEN ParseScaled(s, ip[2], ScanDigits(s, ip[3] + 1, ip[1], 0))
    ELSE ParseScaled(s, ip[2], <<ip[1], 0, ip[3]>>)

ParseMagnitude(s, i) == ParseFraction(s, ScanDigits(s, i, Zero, 0))

(* parseFloat(s): the number denoted by the longest prefix of s that is a   *)
(* decimal literal (sign, digits, fraction, exponent), NaN when there is    *)
(* none. s is the sequence of the characters of the text.                   *)
ParseFloat(s) ==
  IF Len(s) >= 1 /\ s[1] = "-" THEN Neg(ParseMagnitude(s, 2))
  ELSE IF Len(s) >= 1 /\ s[1] = "+" THEN ParseMagnitude(s, 2)
  ELSE ParseMagnitude(s, 1)

----------------------------------------------------------------------------
(* The component *)

NumericFields ==
  {"ambientTemp", "maxSurfaceTemp", "power", "length", "height",
   "finThickness", "baseThickness", "emissivity", "airVelocity"}

materials ==
  << [name |-> "Aluminum 6061", thermalConductivity |-> 167,
      emissivity |-> D(82, -2), density |-> 2700, specificHeat |-> 896],
     [name |-> "Aluminum 1050", thermalConductivity |-> 229,
      emissivity |-> D(9, -2), density |-> 2705, specificHeat |-> 904],
     [name |-> "Copper", thermalConductivity |-> 401,
      emissivity |-> D(4, -2), density |-> 8960, specificHeat |-> 385],
     [name |-> "Brass", thermalConductivity |-> 109,
      emissivity |-> D(61, -2), density |-> 8530, specificHeat |-> 380],
     [name |-> "Steel (Carbon)", thermalConductivity |-> 45,
      emissivity |-> D(8, -1), density |-> 7850, specificHeat |-> 490],
     [name |-> "Titanium", thermalConductivity |-> 22,
      emissivity |-> D(63, -2), density |-> 4500, specificHeat |-> 523] >>

MaterialNames == {materials[i].name : i \in DOMAIN materials}

(* useState initial value of inputs *)
InitialInputs ==
  [ambientTemp |-> D(25, 0), maxSurfaceTemp |-> D(85, 0), power |-> D(10, 0),
   length |-> D(50, 0), height |-> D(25, 0), finThickness |-> D(2, 0),
   baseThickness |-> D(3, 0), emissivity |-> D(82, -2),
   material |-> "Aluminum 6061", convectionType |-> "natural",
   airVelocity |-> D(1, 0)]

Null == [null |-> TRUE]

(* inputs, results, validationResults: the useState cells of the component; *)
(* toast: title of the last toast shown; exported: content of the last file *)
(* downloaded; lastOp: the handler that ran last; steps: handlers run so far *)
VARIABLES inputs, results, validationResults, toast, exported, lastOp, steps

vars ==
  <<inputs, results, validationResults, toast, exported, lastOp, steps>>

Valid == [isValid |-> TRUE, severity |-> "info", message |-> ""]

Warning(msg) == [isValid |-> FALSE, severity |-> "warning", message |-> msg]

Error(msg) == [isValid |-> FALSE, severity |-> "error", message |-> msg]

(* case "ambientTemp" *)
validateAmbientTemp(inp, value) ==
  IF Lt(value, D(0 - 40, 0)) \/ Gt(value, D(60, 0))
    THEN Warning("Ambient temperature should be between -40 and 60 for typical applications")
  ELSE IF Ge(value, inp.maxSurfaceTemp)
    THEN Error("Ambient temperature must be lower than maximum surface temperature")
  ELSE Valid

(* case "maxSurfaceTemp" *)
validateMaxSurfaceTemp(inp, value) ==
  IF Lt(value, Zero) \/ Gt(value, D(200, 0))
    THEN Warning("Surface temperature should be between 0 and 200 for safe operation")
  ELSE IF Le(value, inp.ambientTemp)
    THEN Error("Surface temperature must be higher than ambient temperature")
  ELSE Valid

(* case "power" with the error test weakened to value < 0 *)
validatePowerAllowingZero(value) ==
  IF Lt(value, Zero) THEN Error("Power must be greater than 0W")
  ELSE IF Gt(value, D(1000, 0))
    THEN Warning("Power above 1000W may require forced convection or liquid cooling")
  ELSE Valid

(* case "power" *)
validatePower(value) ==
  IF Le(value, Zero) THEN Error("Power must be greater than 0W")
  ELSE IF Gt(value, D(1000, 0))
    THEN Warning("Power above 1000W may require forced convection or liquid cooling")
  ELSE Valid

(* case "emissivity" with the value < 0 test left out *)
validateEmissivityWithoutLowerBound(value) ==
  IF Gt(value, One)
    THEN Error("Emissivity must be between 0 and 1")
  ELSE IF Lt(value, D(1, -1))
    THEN Warning("Very low emissivity - consider surface treatment for better radiation")
  ELSE Valid

(* case "emissivity" *)
validateEmissivity(value) ==
  IF Lt(value, Zero) \/ Gt(value, One)
    THEN Error("Emissivity must be between 0 and 1")
  ELSE IF Lt(value, D(1, -1))
    THEN Warning("Very low emissivity - consider surface treatment for better radiation")
  ELSE Valid

(* case "length": case "height" *)
validateDimension(value) ==
  IF Le(value, Zero) THEN Error("Dimension must be greater than 0mm")
  ELSE IF Gt(value, D(500, 0))
    THEN Warning("Large dimensions may affect calculation accuracy")
  ELSE Valid

(* case "finThickness" *)
validateFinThickness(value) ==
  IF Le(value, Zero) THEN Error("Fin thickness must be greater than 0mm")
  ELSE IF Lt(value, One)
    THEN Warning("Very thin fins may be difficult to manufacture")
  ELSE IF Gt(value, D(10, 0))
    THEN Warning("Thick fins reduce surface area efficiency")
  ELSE Valid

(* case "baseThickness" *)
validateBaseThickness(value) ==
  IF Le(value, Zero) THEN Error("Base thickness must be greater than 0mm")
  ELSE IF Lt(value, Two)
    THEN Warning("Thin base may cause high thermal resistance")
  ELSE Valid

(* case "airVelocity" without the test of the convection type *)
validateAirVelocityWhateverType(inp, value) ==
  IF Le(value, Zero)
    THEN Error("Air velocity must be greater than 0 m/s for forced convection")
  ELSE IF Gt(value, D(50, 0))
    THEN Warning("Very high air velocity - check fan specifications")
  ELSE Valid

(* case "airVelocity" with the error test weakened to value < 0 *)
validateAirVelocityAllowingZero(inp, value) ==
  IF inp.convectionType = "forced" /\ Lt(value, Zero)
    THEN Error("Air velocity must be greater than 0 m/s for forced convection")
  ELSE IF inp.convectionType = "forced" /\ Gt(value, D(50, 0))
    THEN Warning("Very high air velocity - check fan specifications")
  ELSE Valid

(* case "airVelocity" *)
validateAirVelocity(inp, value) ==
  IF inp.convectionType = "forced" /\ Le(value, Zero)
    THEN Error("Air velocity must be greater than 0 m/s for forced convection")
  ELSE IF inp.convectionType = "forced" /\ Gt(value, D(50, 0))
    THEN Warning("Very high air velocity - check fan specifications")
  ELSE Valid

(* validateInput(field, value), reading the other fields from inp *)
validateInput(inp, field, value) ==
  CASE field = "ambientTemp" -> validateAmbientTemp(inp, value)
    [] field = "maxSurfaceTemp" -> validateMaxSurfaceTemp(inp, value)
    [] field = "power" -> validatePower(value)
    [] field = "emissivity" -> validateEmissivity(value)
    [] field \in {"length", "height"} -> validateDimension(value)
    [] field = "finThickness" -> validateFinThickness(value)
    [] field = "baseThickness" -> validateBaseThickness(value)
    [] field = "airVelocity" -> validateAirVelocity(inp, value)
    [] OTHER -> Valid

IsError(v) == ~v.isValid /\ v.severity = "error"

(* The validations validateAllInputs records: one per field whose value is  *)
(* of type number                                                           *)
AllValidations(inp) ==
  [f \in {n \in NumericFields : inp[n].k # "undef"} |->
     validateInput(inp, f, inp[f])]

(* validateAllInputs passing only when every validation is valid, so that  *)
(* warnings block too                                                       *)
validateAllInputsStrict(inp) ==
  \A f \in NumericFields :
    inp[f].k # "undef" => validateInput(inp, f, inp[f]).isValid

(* The value validateAllInputs returns: no recorded validation is an error *)
validateAllInputs(inp) ==
  \A f \in NumericFields :
    inp[f].k # "undef" => ~IsError(validateInput(inp, f, inp[f]))

----------------------------------------------------------------------------
(* The thermal sizing calculation *)

g == D(981, -2)

nu == D(1568, -8)

alpha == D(22, -6)

k == D(263, -4)

sigma == D(567, -10)

Ten == D(10, 0)

Thousand == D(1000, 0)

(* Math.round(x * 10) / 10 *)
RoundTenth(x) == Div(MathRound(Mul(x, Ten)), Ten)

(* The fin count without the clamp: Math.max(1, ...) left out *)
FinCountUnclamped(power, Qr1, Qc1, Qr2, Qc2) ==
  MathCeil(Add(One, Div(Sub(Sub(power, Qr1), Qc1), Add(Qr2, Qc2))))

(* The fin count without the first fin: 1 + left out of the ceiling *)
FinCountWithoutFirstFin(power, Qr1, Qc1, Qr2, Qc2) ==
  MathMax(One, MathCeil(Div(Sub(Sub(power, Qr1), Qc1), Add(Qr2, Qc2))))

(* Math.max(1, Math.ceil(1 + (power - Qr1 - Qc1) / (Qr2 + Qc2))) *)
FinCount(power, Qr1, Qc1, Qr2, Qc2) ==
  MathMax(One,
          MathCeil(Add(One, Div(Sub(Sub(power, Qr1), Qc1), Add(Qr2, Qc2)))))

(* The try block of calculateHeatSink, section by section. Each section    *)
(* takes the record of the values computed so far (the inputs included) and *)
(* adds the constants it declares.                                          *)

(* Temperatures and dimensions in SI units *)
Conversions(inp) ==
  [deltaT |-> Sub(inp.maxSurfaceTemp, inp.ambientTemp),
   Ts |-> Add(inp.maxSurfaceTemp, D(27315, -2)),
   Tamb |-> Add(inp.ambientTemp, D(27315, -2)),
   L |-> Div(inp.length, Thousand),
   H |-> Div(inp.height, Thousand),
   t |-> Div(inp.finThickness, Thousand),
   b |-> Div(inp.baseThickness, Thousand)] @@ inp

AverageTemperature(c) == [Tavg |-> Div(Add(c.Ts, c.Tamb), Two)] @@ c

AirProperties(c) == [beta |-> Div(One, c.Tavg)] @@ c

(* Optimal fin spacing (Equation 5) *)
OptimalSpacing(c) ==
  [sopt |-> Mul(D(271, -2),
                MathPow(Div(Mul(Mul(g, c.beta), c.deltaT),
                            Mul(Mul(c.L, alpha), nu)),
                        D(0 - 25, -2)))] @@ c

(* The spacing in mm narrowed by the air velocity under forced convection *)
SpacingInMmByVelocity(c) ==
  [spacing |-> IF c.convectionType = "forced"
                 THEN Div(Mul(c.sopt, Thousand), OrElse(c.airVelocity, One))
                 ELSE Mul(c.sopt, Thousand)] @@ c

SpacingInMm(c) == [spacing |-> Mul(c.sopt, Thousand)] @@ c

(* Forced branch: Reynolds and Prandtl numbers, hydraulic diameter *)
ForcedFlow(c) ==
  [Re |-> Div(Mul(OrElse(c.airVelocity, One), c.L), nu),
   Pr |-> Div(nu, alpha),
   Dh |-> Div(Mul(Mul(D(4, 0), c.sopt), c.H),
              Mul(Two, Add(c.sopt, c.H)))] @@ c

ForcedChannel(c) ==
  [ReChannel |-> Div(Mul(OrElse(c.airVelocity, One), c.Dh), nu)] @@ c

ForcedCoefficients(c) ==
  [h1 |-> Mul(Mul(Mul(Div(k, c.L), D(664, -3)), MathPow(c.Re, D(5, -1))),
              MathPow(c.Pr, D(33, -2))),
   h2 |-> Mul(Mul(Mul(Div(k, c.Dh), D(23, -3)),
                  MathPow(c.ReChannel, D(8, -1))),
              MathPow(c.Pr, D(4, -1)))] @@ c

NaturalCoefficients(c) ==
  [h1 |-> Mul(D(142, -2), MathPow(Div(c.deltaT, c.L), D(25, -2))),
   h2 |-> Div(Mul(D(131, -2), k), c.sopt)] @@ c

(* The natural-convection coefficients used whatever the convection type *)
CoefficientsIgnoringType(c) == NaturalCoefficients(c)

(* Heat transfer coefficients by convection type *)
Coefficients(c) ==
  IF c.convectionType = "natural" THEN NaturalCoefficients(c)
  ELSE ForcedCoefficients(ForcedChannel(ForcedFlow(c)))

(* Surface areas (Equations 2, 4, 11) and the radiation temperature term *)
Areas(c) ==
  [A1 |-> Add(Mul(c.H, c.L), Mul(c.t, Add(Mul(Two, c.H), c.L))),
   A2 |-> Add(Add(Mul(c.L, Add(Mul(Two, Sub(c.H, c.b)), c.sopt)),
                  Mul(Two, Add(Mul(c.t, c.H), Mul(c.sopt, c.b)))),
              Mul(c.t, c.L)),
   Ar2 |-> Add(Mul(c.L, Add(c.t, c.sopt)),
               Mul(Two, Add(Mul(c.t, c.H), Mul(c.sopt, c.b)))),
   T4 |-> Sub(MathPow(c.Ts, D(4, 0)), MathPow(c.Tamb, D(4, 0)))] @@ c

(* Heat dissipated by the external surfaces and per fin gap *)
Dissipation(c) ==
  [Qc1 |-> Mul(Mul(Mul(Two, c.h1), c.A1), c.deltaT),
   Qr1 |-> Mul(Mul(Mul(Mul(Two, c.emissivity), sigma), c.A1), c.T4),
   Qc2 |-> Mul(Mul(c.h2, c.A2), c.deltaT),
   Qr2 |-> Mul(Mul(Mul(c.emissivity, sigma), c.Ar2), c.T4)] @@ c

(* Number of fins (Equation 12) *)
NumberOfFins(c) ==
  [numberOfFins |-> FinCount(c.power, c.Qr1, c.Qc1, c.Qr2, c.Qc2)] @@ c

(* Heat sink width (Equation 13) *)
Width(c) ==
  [width |-> Add(Mul(Sub(c.numberOfFins, One), c.spacing),
                 Mul(c.numberOfFins, c.finThickness))] @@ c

(* Every value the try block of calculateHeatSink computes from inp *)
Thermal(inp) ==
  Width(NumberOfFins(Dissipation(Areas(Coefficients(SpacingInMm(
    OptimalSpacing(AirProperties(AverageTemperature(Conversions(inp))))))))))

(* setResults passed the width and the spacing without rounding them *)
StoredResultsUnrounded(c) ==
  [width |-> c.width, spacing |-> c.spacing, numberOfFins |-> c.numberOfFins]

(* The object passed to setResults *)
StoredResults(c) ==
  [width |-> RoundTenth(c.width), spacing |-> RoundTenth(c.spacing),
   numberOfFins |-> c.numberOfFins]

(* The results calculateHeatSink stores for inp *)
ComputedResults(inp) == StoredResults(Thermal(inp))

----------------------------------------------------------------------------
(* Exports *)

(* The rows of the CSV report that depend on the calculation; c holds the  *)
(* values exportToCSV recomputes                                            *)
CsvRows(inp, res, c) ==
  [kind |-> "csv",
   power |-> inp.power,
   width |-> res.width, spacing |-> res.spacing,
   numberOfFins |-> res.numberOfFins,
   Qc1 |-> c.Qc1, Qr1 |-> c.Qr1, Qc2 |-> c.Qc2, Qr2 |-> c.Qr2,
   total |-> Add(Add(c.Qc1, c.Qr1),
                 Mul(Sub(res.numberOfFins, One), Add(c.Qc2, c.Qr2)))]

(* exportToCSV recomputes the detailed values from the inputs with the      *)
(* natural-convection coefficients, whatever the selected convection type   *)
CsvReport(inp, res) ==
  CsvRows(inp, res, Thermal([inp EXCEPT !.convectionType = "natural"]))

(* materials.find((m) => m.name === name): index of the entry, 0 if none *)
FindMaterial(name) ==
  IF \E i \in DOMAIN materials : materials[i].name = name
    THEN CHOOSE i \in DOMAIN materials :
           /\ materials[i].name = name
           /\ \A j \in DOMAIN materials : materials[j].name = name => i <= j
    ELSE 0

(* The length of the array Array.from({ length: n }, ...) builds: n        *)
(* truncated, 0 when n is NaN or negative; an infinite n is an invalid      *)
(* array length, for which Array.from throws                                *)
ArrayLength(n) ==
  IF n.k = "inf" THEN PosInf
  ELSE IF n.k = "fin" /\ Gt(n, Zero) THEN Neg(MathCeil(Neg(n)))
  ELSE Zero

(* i is an index of an array of that length *)
HasIndex(len, i) == IsInteger(i) /\ Ge(i, Zero) /\ Lt(i, len)

(* position_x of the fin of index i in the CAD design *)
position_x(design, i) ==
  Add(Mul(i, Add(design.thickness, design.spacing)),
      Div(design.thickness, Two))

(* The parts of the CAD JSON that depend on the calculation *)
CadDesign(inp, res) ==
  [kind |-> "cad",
   width |-> res.width,
   count |-> res.numberOfFins,
   spacing |-> res.spacing,
   materialEmissivity |->
     IF FindMaterial(inp.material) = 0 THEN Undefined
     ELSE materials[FindMaterial(inp.material)].emissivity,
   surfaceEmissivity |-> inp.emissivity,
   thickness |-> inp.finThickness,
   fins |-> ArrayLength(res.numberOfFins)]

----------------------------------------------------------------------------
(* The 3D preview: HeatSinkMesh of HeatSink3D.tsx *)

(* Millimetres to scene units *)
scale == D(1, -2)

(* The props the calculator passes to HeatSink3D *)
MeshProps(inp, res) ==
  [width |-> res.width, length |-> inp.length, height |-> inp.height,
   finThickness |-> inp.finThickness, baseThickness |-> inp.baseThickness,
   numberOfFins |-> res.numberOfFins, spacing |-> res.spacing]

(* The scaled dimensions *)
MeshScaled(p) ==
  [scaledWidth |-> Mul(p.width, scale),
   scaledFinThickness |-> Mul(p.finThickness, scale),
   scaledSpacing |-> Mul(p.spacing, scale)] @@ p

(* totalFinWidth, totalSpacing and actualWidth of the fin loop *)
MeshActualWidth(m) ==
  [actualWidth |->
     MathMax(m.scaledWidth,
             Add(Mul(m.numberOfFins, m.scaledFinThickness),
                 Mul(Add(m.numberOfFins, One), m.scaledSpacing)))] @@ m

(* finPosition of fin i: the x coordinate of its centre *)
finPosition(m, i) ==
  Add(Add(Add(Neg(Div(m.actualWidth, Two)), m.scaledSpacing),
          Div(m.scaledFinThickness, Two)),
      Mul(i, Add(m.scaledFinThickness, m.scaledSpacing)))

(* The boxes drawn: the base slab, centred at x = 0, and the fins *)
MeshBoxes(m) ==
  [baseWidth |-> MathMax(D(1, -1), m.scaledWidth),
   finWidth |-> MathMax(D(1, -2), m.scaledFinThickness),
   fins |-> ArrayLength(MathMax(One, m.numberOfFins))] @@ m

HeatSinkMesh(inp, res) ==
  MeshBoxes(MeshActualWidth(MeshScaled(MeshProps(inp, res))))

----------------------------------------------------------------------------
(* State machine of the component *)

MaxSteps == 3

(* Texts typed into the number fields, as sequences of characters *)
FieldTexts ==
  [ambientTemp |-> {<<"2", "5", "0">>, <<>>},
   maxSurfaceTemp |-> {<<"2", "5", "0">>, <<"-", "5">>, <<"2", "0">>},
   power |-> {<<"1">>, <<"0">>, <<"2", "0", "0", "0">>},
   length |-> {<<"0">>, <<"6", "0", "0">>},
   height |-> {<<"0">>, <<"2">>},
   finThickness |-> {<<"0", ".", "0", "4">>, <<"0">>, <<"1", "2">>},
   baseThickness |-> {<<"4", "0">>, <<"0">>, <<"1">>},
   emissivity |-> {<<"0">>, <<"1", ".", "5">>, <<"-", "0", ".", "1">>,
                   <<"0", ".", "0", "5">>},
   airVelocity |-> {<<"0">>, <<"2">>, <<"a">>, <<"6", "0">>}]

(* Names handleMaterialChange is called with *)
MaterialChoices == MaterialNames \cup {"Unobtainium"}

Init ==
  /\ inputs = InitialInputs
  /\ results = Null
  /\ validationResults = <<>>
  /\ toast = "none"
  /\ exported = Null
  /\ lastOp = "none"
  /\ steps = 0

(* The validation record with one key set: { ...prev, [field]: v } *)
WithKey(prev, field, v) ==
  [f \in DOMAIN prev \cup {field} |-> IF f = field THEN v ELSE prev[f]]

(* The air velocity field is rendered only for forced convection *)
FieldShown(field) ==
  field = "airVelocity" => inputs.convectionType = "forced"

(* setInputs and setValidationResults of handleInputChange *)
setField(field, numValue) ==
  /\ inputs' = [inputs EXCEPT ![field] = numValue]
  /\ validationResults' =
       WithKey(validationResults, field,
               validateInput(inputs, field, numValue))

(* handleInputChange without the || 0 fallback *)
handleInputChangeKeepingNaN(field, value) ==
  /\ steps < MaxSteps
  /\ FieldShown(field)
  /\ setField(field, ParseFloat(value))
  /\ lastOp' = "handleInputChange"
  /\ steps' = steps + 1
  /\ UNCHANGED <<results, toast, exported>>

handleInputChange(field, value) ==
  /\ steps < MaxSteps
  /\ FieldShown(field)
  /\ setField(field, OrElse(ParseFloat(value), Zero))
  /\ lastOp' = "handleInputChange"
  /\ steps' = steps + 1
  /\ UNCHANGED <<results, toast, exported>>

(* handleMaterialChange setting the material but not its emissivity *)
handleMaterialChangeKeepingEmissivity(materialName) ==
  /\ steps < MaxSteps
  /\ inputs' =
       IF FindMaterial(materialName) # 0
         THEN [inputs EXCEPT !.material = materialName]
         ELSE inputs
  /\ lastOp' = "handleMaterialChange"
  /\ steps' = steps + 1
  /\ UNCHANGED <<results, validationResults, toast, exported>>

handleMaterialChange(materialName) ==
  /\ steps < MaxSteps
  /\ inputs' =
       IF FindMaterial(materialName) # 0
         THEN [inputs EXCEPT
                 !.material = materialName,
                 !.emissivity = materials[FindMaterial(materialName)].emissivity]
         ELSE inputs
  /\ lastOp' = "handleMaterialChange"
  /\ steps' = steps + 1
  /\ UNCHANGED <<results, validationResults, toast, exported>>

(* onValueChange of the convection type select *)
setConvectionType(value) ==
  /\ steps < MaxSteps
  /\ inputs' = [inputs EXCEPT !.convectionType = value]
  /\ lastOp' = "setConvectionType"
  /\ steps' = steps + 1
  /\ UNCHANGED <<results, validationResults, toast, exported>>

(* calculateHeatSink keeping a result it stored earlier *)
calculateHeatSinkKeepingEarlierResult ==
  /\ steps < MaxSteps
  /\ validationResults' = AllValidations(inputs)
  /\ IF ~validateAllInputs(inputs)
       THEN /\ toast' = "Validation Error"
            /\ results' = results
       ELSE /\ results' = IF results = Null THEN ComputedResults(inputs)
                          ELSE results
            /\ toast' = "Calculation Complete"
  /\ lastOp' = "calculateHeatSink"
  /\ steps' = steps + 1
  /\ UNCHANGED <<inputs, exported>>

(* calculateHeatSink clearing the results when validation fails *)
calculateHeatSinkClearingResults ==
  /\ steps < MaxSteps
  /\ validationResults' = AllValidations(inputs)
  /\ IF ~validateAllInputs(inputs)
       THEN /\ toast' = "Validation Error"
            /\ results' = Null
       ELSE /\ results' = ComputedResults(inputs)
            /\ toast' = "Calculation Complete"
  /\ lastOp' = "calculateHeatSink"
  /\ steps' = steps + 1
  /\ UNCHANGED <<inputs, exported>>

(* calculateHeatSink reaching its catch branch when the computed result is *)
(* not finite                                                              *)
calculateHeatSinkThrowingOnNonFinite ==
  /\ steps < MaxSteps
  /\ validationResults' = AllValidations(inputs)
  /\ IF ~validateAllInputs(inputs)
       THEN /\ toast' = "Validation Error"
            /\ results' = results
       ELSE IF IsFinite(ComputedResults(inputs).numberOfFins)
         THEN /\ results' = ComputedResults(inputs)
              /\ toast' = "Calculation Complete"
         ELSE /\ results' = results
              /\ toast' = "Calculation Error"
  /\ lastOp' = "calculateHeatSink"
  /\ steps' = steps + 1
  /\ UNCHANGED <<inputs, exported>>

calculateHeatSink ==
  /\ steps < MaxSteps
  /\ validationResults' = AllValidations(inputs)
  /\ IF ~validateAllInputs(inputs)
       THEN /\ toast' = "Validation Error"
            /\ results' = results
       ELSE /\ results' = ComputedResults(inputs)
            /\ toast' = "Calculation Complete"
  /\ lastOp' = "calculateHeatSink"
  /\ steps' = steps + 1
  /\ UNCHANGED <<inputs, exported>>

(* exportToCSV without the early return on missing results *)
exportToCSVWithoutResults ==
  /\ steps < MaxSteps
  /\ lastOp' = "exportToCSV"
  /\ steps' = steps + 1
  /\ exported' = IF results = Null THEN [kind |-> "csv"]
                 ELSE CsvReport(inputs, results)
  /\ toast' = "CSV Exported"
  /\ UNCHANGED <<inputs, results, validationResults>>

exportToCSV ==
  /\ steps < MaxSteps
  /\ lastOp' = "exportToCSV"
  /\ steps' = steps + 1
  /\ IF results = Null
       THEN UNCHANGED <<toast, exported>>
       ELSE /\ exported' = CsvReport(inputs, results)
            /\ toast' = "CSV Exported"
  /\ UNCHANGED <<inputs, results, validationResults>>

exportToCAD ==
  /\ steps < MaxSteps
  /\ lastOp' = "exportToCAD"
  /\ steps' = steps + 1
  /\ IF results = Null \/ ArrayLength(results.numberOfFins) = PosInf
       THEN UNCHANGED <<toast, exported>>
       ELSE /\ exported' = CadDesign(inputs, results)
            /\ toast' = "CAD File Exported"
  /\ UNCHANGED <<inputs, results, validationResults>>

Next ==
  \/ \E field \in NumericFields : \E value \in FieldTexts[field] :
       handleInputChange(field, value)
  \/ \E materialName \in MaterialChoices : handleMaterialChange(materialName)
  \/ \E value \in {"natural", "forced"} : setConvectionType(value)
  \/ calculateHeatSink
  \/ exportToCSV
  \/ exportToCAD

Spec == Init /\ [][Next]_vars

----------------------------------------------------------------------------
(* The calculation alone, started from a grid of input values *)

EngineInputs ==
  [ambientTemp : {D(25, 0), D(0 - 10, 0)},
   maxSurfaceTemp : {D(85, 0), D(40, 0)},
   power : {One, Ten, D(75, 0)},
   length : {D(50, 0), D(200, 0)},
   height : {D(25, 0)},
   finThickness : {Two, D(4, -2)},
   baseThickness : {D(3, 0), D(30, 0)},
   emissivity : {D(82, -2), Zero},
   material : {"Aluminum 6061"},
   convectionType : {"natural", "forced"},
   airVelocity : {One, D(3, 0)}]

InitEngine ==
  /\ inputs \in EngineInputs
  /\ results = Null
  /\ validationResults = <<>>
  /\ toast = "none"
  /\ exported = Null
  /\ lastOp = "none"
  /\ steps = 0

NextEngine == calculateHeatSink

SpecEngine == InitEngine /\ [][NextEngine]_vars

(* The calculation started from values of the declared type HeatSinkInputs, *)
(* whose airVelocity is optional                                            *)
DeclaredInputs ==
  [ambientTemp : {D(25, 0)},
   maxSurfaceTemp : {D(85, 0), D(20, 0)},
   power : {Ten, Zero, D(50, 0)},
   length : {D(50, 0)},
   height : {D(25, 0)},
   finThickness : {Two},
   baseThickness : {D(3, 0)},
   emissivity : {D(82, -2), D(4, -2)},
   material : {"Aluminum 6061"},
   convectionType : {"natural", "forced"},
   airVelocity : {Undefined, One, Two, Zero}]

InitDeclared ==
  /\ inputs \in DeclaredInputs
  /\ results = Null
  /\ validationResults = <<>>
  /\ toast = "none"
  /\ exported = Null
  /\ lastOp = "none"
  /\ steps = 0

NextDeclared == calculateHeatSink

SpecDeclared == InitDeclared /\ [][NextDeclared]_vars

----------------------------------------------------------------------------
(* The editing handlers alone, started from the component as created and   *)
(* from the component after a first calculation with the default inputs    *)

InitEdits ==
  /\ inputs = InitialInputs
  /\ exported = Null
  /\ steps = 0
  /\ \/ /\ results = Null
        /\ validationResults = <<>>
        /\ toast = "none"
        /\ lastOp = "none"
     \/ /\ results = ComputedResults(InitialInputs)
        /\ validationResults = AllValidations(InitialInputs)
        /\ toast = "Calculation Complete"
        /\ lastOp = "calculateHeatSink"

NextEdits ==
  \/ \E field \in NumericFields : \E value \in FieldTexts[field] :
       handleInputChange(field, value)
  \/ \E value \in {"natural", "forced"} : setConvectionType(value)

SpecEdits == InitEdits /\ [][NextEdits]_vars

----------------------------------------------------------------------------
(* Properties *)

(* The last step was a run of calculateHeatSink *)
Calculated == lastOp = "calculateHeatSink"

(* The last step was a run of calculateHeatSink that validation stopped *)
Rejected == Calculated /\ toast = "Validation Error"

(* The last step was a run of calculateHeatSink that stored a result *)
Completed == Calculated /\ toast = "Calculation Complete"

(* The step is a run of calculateHeatSink *)
Calculates == lastOp' = "calculateHeatSink" /\ steps' = steps + 1

(* The step is a run of calculateHeatSink that fails and stores nothing *)
FailsStoringNothing ==
  Calculates /\ toast' = "Validation Error" /\ results' = results

(* The inputs meet every invariant of a valid thermal input *)
ValidInput(inp) ==
  /\ Gt(inp.maxSurfaceTemp, inp.ambientTemp)
  /\ \A f \in {"power", "length", "height", "finThickness", "baseThickness"} :
       Gt(inp[f], Zero)
  /\ Gt(inp.height, inp.baseThickness)
  /\ Ge(inp.emissivity, Zero)
  /\ Le(inp.emissivity, One)
  /\ inp.convectionType = "forced" => Gt(inp.airVelocity, Zero)

(* Every field of a stored result is a finite number *)
FiniteResults(res) ==
  IsFinite(res.width) /\ IsFinite(res.spacing) /\ IsFinite(res.numberOfFins)

(* C1: when maxSurfaceTemp <= ambientTemp, whatever the advisory ranges,   *)
(* calculateHeatSink fails and stores no result, and no stored result ever  *)
(* holds NaN or Infinity.                                                   *)
C1_NonPositiveTemperatureDifferenceRejected ==
  /\ (Calculated /\ Le(inputs.maxSurfaceTemp, inputs.ambientTemp)) => Rejected
  /\ results # Null => FiniteResults(results)

(* C2: for every valid input the stored result has an integer numberOfFins  *)
(* of at least 1, and a width and a spacing that are greater than 0 as      *)
(* stored, after rounding to one decimal.                                   *)
C2_ValidInputGivesPositiveResult ==
  (Completed /\ ValidInput(inputs)) =>
    /\ IsInteger(results.numberOfFins)
    /\ Ge(results.numberOfFins, One)
    /\ Gt(results.width, Zero)
    /\ Gt(results.spacing, Zero)

(* C3: a run of calculateHeatSink that validation rejects leaves results,   *)
(* inputs and the exported file exactly as they were; it only replaces      *)
(* validationResults by the validations of the current inputs.              *)
C3_RejectedRunKeepsResults ==
  [][(Calculates /\ toast' = "Validation Error") =>
       /\ results' = results
       /\ inputs' = inputs
       /\ exported' = exported
       /\ validationResults' = AllValidations(inputs)]_vars

(* C3 witness: a run was rejected while a result of an earlier run is stored *)
C3_RejectedWithStoredResult == Rejected /\ results # Null

(* C4: when any of power, length, height, finThickness or baseThickness is  *)
(* <= 0, calculateHeatSink fails and stores no result.                      *)
C4_NonPositiveQuantityRejected ==
  [][(Calculates /\ \E f \in {"power", "length", "height", "finThickness",
                              "baseThickness"} : Le(inputs[f], Zero))
       => FailsStoringNothing]_vars

(* C4 witness: a run was rejected with one of the five quantities <= 0 *)
C4_RejectedNonPositiveQuantity ==
  /\ Rejected
  /\ \E f \in {"power", "length", "height", "finThickness", "baseThickness"} :
       Le(inputs[f], Zero)

(* C5: an emissivity below 0 or above 1 makes calculateHeatSink fail and    *)
(* store nothing; an emissivity in [0, 1], 0 and values below 0.1 included, *)
(* is never an error, so that a run is rejected only for another field.     *)
C5_EmissivityRange ==
  [][Calculates =>
       /\ (Lt(inputs.emissivity, Zero) \/ Gt(inputs.emissivity, One))
            => FailsStoringNothing
       /\ (Ge(inputs.emissivity, Zero) /\ Le(inputs.emissivity, One))
            => /\ ~IsError(validationResults'["emissivity"])
               /\ \/ toast' = "Calculation Complete"
                  \/ \E f \in DOMAIN validationResults' \ {"emissivity"} :
                       IsError(validationResults'[f])]_vars

(* C5 witness: a run with emissivity 0 stored a result *)
C5_ZeroEmissivityAccepted == Completed /\ IsZero(inputs.emissivity)

(* C6: under forced convection an airVelocity <= 0 makes calculateHeatSink  *)
(* fail and store nothing, so the fallback to 1.0 never computes a result   *)
(* from a zero velocity.                                                    *)
C6_NonPositiveAirVelocityRejected ==
  [][(Calculates /\ inputs.convectionType = "forced"
        /\ Le(inputs.airVelocity, Zero)) => FailsStoringNothing]_vars

(* C6 witness: a forced-convection run with airVelocity 0 was rejected *)
C6_RejectedZeroAirVelocity ==
  Rejected /\ inputs.convectionType = "forced" /\ IsZero(inputs.airVelocity)

C8_HeightNotAboveBaseRejected ==
  (Calculated /\ Le(inputs.height, inputs.baseThickness)) => Rejected

(* C9: when the heat one additional fin channel dissipates, Qc2 + Qr2, is   *)
(* <= 0, calculateHeatSink fails and stores no result.                      *)
C9_NonPositiveChannelDissipationRejected ==
  (Calculated /\ Le(Add(Thermal(inputs).Qc2, Thermal(inputs).Qr2), Zero))
    => Rejected

(* n fins dissipate at least the power: Qc1 + Qr1 + (n-1)(Qc2 + Qr2) >= power *)
Suffices(c, n) ==
  Ge(Add(Add(c.Qc1, c.Qr1), Mul(Sub(n, One), Add(c.Qc2, c.Qr2))), c.power)

(* n - 1 fins dissipate less: Qc1 + Qr1 + (n-2)(Qc2 + Qr2) < power *)
OneFewerFallsShort(c, n) ==
  Lt(Add(Add(c.Qc1, c.Qr1), Mul(Sub(n, Two), Add(c.Qc2, c.Qr2))), c.power)

(* C10: for a valid input the stored numberOfFins n is an integer >= 1 with *)
(* Qc1 + Qr1 + (n-1)(Qc2 + Qr2) >= power, and when n > 1 one fin fewer      *)
(* falls short: Qc1 + Qr1 + (n-2)(Qc2 + Qr2) < power.                       *)
C10_SmallestSufficientFinCount ==
  (Completed /\ ValidInput(inputs)) =>
    /\ IsInteger(results.numberOfFins)
    /\ Ge(results.numberOfFins, One)
    /\ Suffices(Thermal(inputs), results.numberOfFins)
    /\ Gt(results.numberOfFins, One)
         => OneFewerFallsShort(Thermal(inputs), results.numberOfFins)

(* C10 witness: a valid input for which more than one fin is stored *)
C10_SeveralFinsStored ==
  Completed /\ ValidInput(inputs) /\ Gt(results.numberOfFins, One)

(* Powers and emissivities a run is compared with *)
ComparedPowers == {One, Two, Ten, D(20, 0), D(75, 0), D(150, 0)}

ComparedEmissivities == {Zero, D(4, -2), D(5, -1), D(82, -2), One}

(* The fin count calculateHeatSink stores for inp, when it accepts inp *)
FinsFor(inp) == ComputedResults(inp).numberOfFins

(* C11: of two accepted inputs that differ only in power, the one with the  *)
(* larger power never gets fewer fins; in particular doubling the power     *)
(* never lowers the fin count.                                              *)
C11_PowerMonotone ==
  Completed =>
    \A p \in ComparedPowers \cup {Mul(inputs.power, Two)} :
      (validateAllInputs([inputs EXCEPT !.power = p]) /\ Le(inputs.power, p))
        => Le(results.numberOfFins, FinsFor([inputs EXCEPT !.power = p]))

(* C12: of two accepted inputs that differ only in emissivity, the one with *)
(* the larger emissivity never gets more fins, also when the power is below *)
(* the external dissipation Qc1 + Qr1.                                      *)
C12_EmissivityMonotone ==
  Completed =>
    \A e \in ComparedEmissivities :
      (validateAllInputs([inputs EXCEPT !.emissivity = e])
         /\ Le(inputs.emissivity, e))
        => Ge(results.numberOfFins, FinsFor([inputs EXCEPT !.emissivity = e]))

(* The closed form 1 + (power - Qr1 - Qc1) / (Qr2 + Qc2) before the ceiling *)
ClosedForm(c) ==
  Add(One, Div(Sub(Sub(c.power, c.Qr1), c.Qc1), Add(c.Qr2, c.Qc2)))

(* C13: whenever the closed form is <= 1 the stored numberOfFins is 1 and   *)
(* the stored width is finThickness rounded to 0.1 mm; and no stored        *)
(* numberOfFins is below 1.                                                 *)
C13_ClampedToOneFin ==
  Completed =>
    /\ Le(ClosedForm(Thermal(inputs)), One)
         => /\ results.numberOfFins = One
            /\ results.width = RoundTenth(inputs.finThickness)
    /\ ~Lt(results.numberOfFins, One)

(* C13 witness: a result was stored for which the closed form is below 1 *)
C13_ClosedFormBelowOne == Completed /\ Lt(ClosedForm(Thermal(inputs)), One)

(* (n - 1) * spacing + n * finThickness with the unrounded spacing of c *)
UnroundedWidth(c, n) ==
  Add(Mul(Sub(n, One), Mul(c.sopt, Thousand)), Mul(n, c.finThickness))

(* The stored width and spacing are the unrounded ones rounded to 0.1 mm *)
StoredRounded(c, res) ==
  /\ res.width = RoundTenth(UnroundedWidth(c, res.numberOfFins))
  /\ res.spacing = RoundTenth(Mul(c.sopt, Thousand))
  /\ res.numberOfFins = c.numberOfFins

(* C14: the stored width is (numberOfFins - 1) * spacing + numberOfFins *   *)
(* finThickness, computed with the unrounded spacing sopt * 1000 and then   *)
(* rounded to 0.1 mm; the stored spacing is sopt * 1000 rounded to 0.1 mm;  *)
(* numberOfFins is stored unrounded and is an exact integer.                *)
C14_StoredValuesRounded ==
  Completed =>
    /\ StoredRounded(Thermal(inputs), results)
    /\ IsInteger(results.numberOfFins)

(* C15: rounding the stored width and the stored spacing to one decimal     *)
(* again, as round(x * 10) / 10, returns the stored values unchanged.       *)
C15_RoundingIdempotent ==
  results # Null =>
    /\ Div(MathRound(Mul(results.width, Ten)), Ten) = results.width
    /\ Div(MathRound(Mul(results.spacing, Ten)), Ten) = results.spacing

(* C15 witness: a stored width that the rounding changed *)
C15_RoundedWidthStored ==
  /\ Completed
  /\ IsFinite(results.width)
  /\ Thermal(inputs).width # results.width

(* C16: the result a successful calculateHeatSink stores is a function of   *)
(* the inputs of that call alone, whatever edits, earlier calculations,     *)
(* failed validations or exports came before: any two successful calls     *)
(* with equal inputs store equal results.                                   *)
C16_ResultDependsOnInputsOnly ==
  [][(Calculates /\ toast' = "Calculation Complete")
       => results' = ComputedResults(inputs)]_vars

(* C16 witness: a successful calculation after an earlier one and an export *)
C16_CalculatedAgainAfterExport == Completed /\ exported # Null

(* Air velocities a run is compared with *)
ComparedVelocities == {Two, D(3, 0)}

(* inp with another convection type and air velocity *)
WithConvection(inp, type, velocity) ==
  [inp EXCEPT !.convectionType = type, !.airVelocity = velocity]

(* C17: two accepted inputs that differ only in convectionType and / or     *)
(* airVelocity store the same spacing.                                      *)
C17_SpacingIndependentOfConvection ==
  Completed =>
    \A type \in {"natural", "forced"} : \A velocity \in ComparedVelocities :
      validateAllInputs(WithConvection(inputs, type, velocity))
        => ComputedResults(WithConvection(inputs, type, velocity)).spacing
             = results.spacing

(* C17 witness: a forced-convection result whose fin count differs from the *)
(* natural-convection one for the same inputs, so the two runs do differ    *)
C17_ForcedResultStored ==
  /\ Completed
  /\ inputs.convectionType = "forced"
  /\ FinsFor(WithConvection(inputs, "natural", inputs.airVelocity))
       # results.numberOfFins

(* Scenario A: the default inputs, natural convection *)
ScenarioA == InitialInputs

(* Scenario B: scenario A with forced convection at 2.0 m/s *)
ScenarioB == WithConvection(InitialInputs, "forced", Two)

(* C18: with the scenario-A inputs but forced convection and airVelocity    *)
(* 2.0, calculateHeatSink stores a numberOfFins / spacing pair different    *)
(* from the one of scenario A, with a smaller numberOfFins.                 *)
C18_ScenarioBDiffersFromA ==
  (Completed /\ inputs = ScenarioB) =>
    /\ <<results.numberOfFins, results.spacing>>
         # <<FinsFor(ScenarioA), ComputedResults(ScenarioA).spacing>>
    /\ Lt(results.numberOfFins, FinsFor(ScenarioA))

(* C18 witness: the result of scenario B is stored *)
C18_ScenarioBCalculated == Completed /\ inputs = ScenarioB

(* Air velocities a natural-convection run is compared with *)
NaturalVelocities == {Zero, D(0 - 1, 0), Two, D(60, 0)}

(* inp with another air velocity *)
WithVelocity(inp, velocity) == [inp EXCEPT !.airVelocity = velocity]

(* C19: under natural convection two inputs that differ only in airVelocity *)
(* (0, negative and above 50 included) are both accepted or both rejected   *)
(* by calculateHeatSink, and when accepted store the same result.           *)
C19_AirVelocityIgnoredWhenNatural ==
  (Calculated /\ inputs.convectionType = "natural") =>
    \A velocity \in NaturalVelocities :
      /\ validateAllInputs(WithVelocity(inputs, velocity)) <=> Completed
      /\ Completed => ComputedResults(WithVelocity(inputs, velocity)) = results

(* C19 witness: a natural-convection result stored with airVelocity 0 *)
C19_NaturalWithZeroVelocity ==
  Completed /\ inputs.convectionType = "natural" /\ IsZero(inputs.airVelocity)

(* The emissivity the materials table lists for name *)
TableEmissivity(name) ==
  materials[CHOOSE i \in DOMAIN materials : materials[i].name = name].emissivity

(* C20: handleMaterialChange(name) with a name of the materials table sets  *)
(* inputs.material to the name and inputs.emissivity to the emissivity the  *)
(* table lists for it, and leaves every other input field and results       *)
(* unchanged; with any other name it leaves inputs unchanged.               *)
C20_MaterialChangeFrame ==
  [][\A name \in MaterialChoices :
       handleMaterialChange(name) =>
         /\ results' = results
         /\ inputs' = IF name \in MaterialNames
                        THEN [inputs EXCEPT !.material = name,
                                            !.emissivity = TableEmissivity(name)]
                        ELSE inputs]_vars

(* C20 witness: Copper was selected while a result is stored *)
C20_CopperSelectedWithResult ==
  /\ lastOp = "handleMaterialChange"
  /\ inputs.material = "Copper"
  /\ inputs.emissivity = D(4, -2)
  /\ results # Null

(* The first indices of an array of that length *)
FirstIndices(len) == {i \in {Zero, One, Two} : HasIndex(len, i)}

(* A CAD design was exported *)
CadExported == exported # Null /\ exported.kind = "cad"

(* The CAD fins: centres finThickness + spacing apart, the left face of the *)
(* first fin on the left edge x = 0 of the base rectangle                   *)
CadFinsLaidOut(design) ==
  \A i \in FirstIndices(design.fins) :
    /\ HasIndex(design.fins, Add(i, One))
         => Sub(position_x(design, Add(i, One)), position_x(design, i))
              = Add(design.thickness, design.spacing)
    /\ i = Zero
         => Sub(position_x(design, i), Div(design.thickness, Two)) = Zero

(* The preview fins: centres one fin thickness plus one spacing apart, the  *)
(* left face of the first fin on the left edge of the base slab, which is   *)
(* centred at x = 0                                                         *)
MeshFinsLaidOut(m) ==
  \A i \in FirstIndices(m.fins) :
    /\ HasIndex(m.fins, Add(i, One))
         => Sub(finPosition(m, Add(i, One)), finPosition(m, i))
              = Add(m.scaledFinThickness, m.scaledSpacing)
    /\ i = Zero
         => Sub(finPosition(m, i), Div(m.finWidth, Two))
              = Neg(Div(m.baseWidth, Two))

(* C21: in the CAD design and in the 3D preview built from a result, the    *)
(* fin centres are finThickness + spacing apart and the left face of the    *)
(* first fin coincides with the left edge of the base slab.                 *)
C21_FinsEvenlySpacedFromLeftEdge ==
  /\ CadExported => CadFinsLaidOut(exported)
  /\ results # Null => MeshFinsLaidOut(HeatSinkMesh(inputs, results))

(* C22: whenever results is not null, and so displayed, previewed and       *)
(* exportable, it is the result of the calculation applied to the current   *)
(* inputs.                                                                  *)
C22_ResultsOfCurrentInputs ==
  results # Null => results = ComputedResults(inputs)

(* The detailed values of a CSV report are those of the calculation c *)
ReportsCalculation(report, c) ==
  /\ report.Qc1 = c.Qc1
  /\ report.Qr1 = c.Qr1
  /\ report.Qc2 = c.Qc2
  /\ report.Qr2 = c.Qr2

(* C23: a CSV export made directly after a successful calculation reports,  *)
(* for both convection types, the detailed values the calculation used, so  *)
(* that the reported total heat dissipation Qc1 + Qr1 + (numberOfFins - 1)  *)
(* (Qc2 + Qr2) is at least the reported power.                              *)
C23_CsvReportsTheCalculation ==
  [][(Completed /\ lastOp' = "exportToCSV") =>
       /\ ReportsCalculation(exported', Thermal(inputs))
       /\ Ge(exported'.total, exported'.power)]_vars

(* The x coordinate of the right face of the last fin of a CAD design *)
LastFinRightFace(design) ==
  Add(position_x(design, Sub(design.fins, One)), Div(design.thickness, Two))

(* C24: for every stored result, the fins exportToCAD lays out fit inside   *)
(* the exported base: the right face of the last fin, (numberOfFins - 1) *  *)
(* (finThickness + spacing) + finThickness with the stored spacing, does    *)
(* not exceed the stored width.                                             *)
C24_CadFinsFitTheBase ==
  (Completed /\ HasIndex(CadDesign(inputs, results).fins, Zero)) =>
    Le(LastFinRightFace(CadDesign(inputs, results)),
       CadDesign(inputs, results).width)

(* Some numeric field of inp has an invalid outcome of severity error *)
SomeErrorOutcome(inp) ==
  \E f \in NumericFields :
    /\ ~validateInput(inp, f, inp[f]).isValid
    /\ validateInput(inp, f, inp[f]).severity = "error"

(* Some numeric field of inp has an invalid outcome of severity warning *)
SomeWarningOutcome(inp) ==
  \E f \in NumericFields :
    /\ ~validateInput(inp, f, inp[f]).isValid
    /\ validateInput(inp, f, inp[f]).severity = "warning"

(* C25: calculateHeatSink stores a new result if and only if no numeric     *)
(* field's validateInput outcome is invalid with severity error; outcomes   *)
(* of severity warning never block it.                                      *)
C25_BlockedExactlyByErrors ==
  [][Calculates =>
       /\ SomeErrorOutcome(inputs) => FailsStoringNothing
       /\ ~SomeErrorOutcome(inputs)
            => /\ toast' = "Calculation Complete"
               /\ results' = ComputedResults(inputs)]_vars

(* C25 witness: a result was stored although a field has a warning *)
C25_StoredDespiteWarning == Completed /\ SomeWarningOutcome(inputs)

(* C26: every entry recorded in validationResults equals validateInput      *)
(* applied to the value of that field in the current inputs, after any      *)
(* sequence of edits, convection-type changes and material changes.         *)
C26_ValidationResultsCurrent ==
  \A f \in DOMAIN validationResults :
    validationResults[f] = validateInput(inputs, f, inputs[f])

(* C27: every calculateHeatSink invocation ends in exactly one of two       *)
(* outcomes, the toast 'Validation Error' with results unchanged or the     *)
(* toast 'Calculation Complete' with results replaced by the result of the  *)
(* calculation on the current inputs; the toast 'Calculation Error' is      *)
(* never shown.                                                             *)
C27_TwoOutcomes ==
  [][/\ Calculates =>
          \/ toast' = "Validation Error" /\ results' = results
          \/ toast' = "Calculation Complete"
               /\ results' = StoredResults(Thermal(inputs))
     /\ toast' # "Calculation Error"]_vars

(* C27 witness: a rejected calculation left an earlier result in place *)
C27_RejectedKeepingResult == Rejected /\ results # Null

(* An export handler has just run *)
Exports == lastOp' \in {"exportToCSV", "exportToCAD"} /\ steps' = steps + 1

(* C28: results is null at creation and becomes non-null only by a          *)
(* calculation that completes, which always stores a result; no operation   *)
(* resets a stored result to null; and exportToCSV and exportToCAD produce  *)
(* no file and no toast while results is null.                              *)
C28_ResultsSetOnlyBySuccess ==
  [][/\ steps = 0 => results = Null
     /\ (results = Null /\ results' # Null)
          => Calculates /\ toast' = "Calculation Complete"
     /\ (Calculates /\ toast' = "Calculation Complete") => results' # Null
     /\ results # Null => results' # Null
     /\ (Exports /\ results = Null)
          => exported' = exported /\ toast' = toast]_vars

(* C28 witness: an export was asked for before any result was stored *)
C28_ExportWithoutResult ==
  /\ lastOp \in {"exportToCSV", "exportToCAD"}
  /\ results = Null
  /\ exported = Null

(* The number a field holds after the text is typed into it *)
TypedNumber(value) ==
  IF ParseFloat(value).k = "nan" THEN Zero ELSE ParseFloat(value)

(* Texts that are empty or start with no number *)
NonNumericTexts == {<<>>, <<"a">>}

(* C29: handleInputChange(field, text) sets exactly that field to the       *)
(* parsed number, or to 0 when the text is empty or non-numeric, and        *)
(* records the validation of that field only; the other input fields, the   *)
(* results and the other entries of validationResults are unchanged.        *)
C29_InputChangeFrame ==
  [][\A field \in NumericFields : \A value \in FieldTexts[field] :
       handleInputChange(field, value) =>
         /\ inputs' = [inputs EXCEPT ![field] = TypedNumber(value)]
         /\ value \in NonNumericTexts => inputs'[field] = Zero
         /\ results' = results
         /\ DOMAIN validationResults' = DOMAIN validationResults \cup {field}
         /\ validationResults'[field] =
              validateInput(inputs', field, inputs'[field])
         /\ \A f \in DOMAIN validationResults \ {field} :
              validationResults'[f] = validationResults[f]]_vars

(* C29 witness: an empty text was typed into the ambient temperature while  *)
(* a result and another field's validation were held                        *)
C29_EmptyTextTyped ==
  /\ lastOp = "handleInputChange"
  /\ inputs.ambientTemp = Zero
  /\ results # Null
  /\ "power" \in DOMAIN validationResults

(* C30: in every reachable state inputs.emissivity is the emissivity the    *)
(* materials table lists for inputs.material, and in a CAD export the       *)
(* emissivity of the material properties equals the surface emissivity of   *)
(* the thermal section.                                                     *)
C30_EmissivityOfMaterial ==
  /\ inputs.emissivity = TableEmissivity(inputs.material)
  /\ CadExported => exported.materialEmissivity = exported.surfaceEmissivity

====
